---- MODULE Spec2Model ----
(***************************************************************************)
(* Model of toolsrc/src/Paragraphs.cpp: the single-character-lookahead     *)
(* scanner that turns CONTROL-style text into paragraphs (maps from field  *)
(* name to field value), and the entry points built on it.                 *)
(*                                                                         *)
(* A text is a sequence of characters; a character is a one-element        *)
(* string, the character with code 0 is written NUL.  The cursor `cur` is  *)
(* a 1-based index into the text, `end` is Len(text) + 1.                  *)
(***************************************************************************)
EXTENDS Integers, Sequences, FiniteSets, TLC

\* ------------------------------------------------------------------------
\* Bounds of the model
\* ------------------------------------------------------------------------
MaxLen == 4

MaxLines == 3

MaxPorts == 2

\* ------------------------------------------------------------------------
\* Characters
\* ------------------------------------------------------------------------
NUL == "NUL"

Upper == {"A"}

Lower == {"a"}

Digit == {"1"}

Chars == Upper \cup Lower \cup Digit \cup {"-", ":", " ", "\t", "\n", "\r", "#", NUL}

is_alphanum(c) == (c \in Upper) \/ (c \in Lower) \/ (c \in Digit)

\* a line-end test that forgets '\r'
is_lineend_no_cr(c) == c = "\n" \/ c = NUL

is_lineend(c) == c = "\r" \/ c = "\n" \/ c = NUL

\* skip_spaces taking the end sentinel for a space
is_space_or_nul(c) == c = " " \/ c = "\t" \/ c = NUL

\* skip_spaces skipping ' ' only
is_space_no_tab(c) == c = " "

is_space(c) == c = " " \/ c = "\t"

is_blank(c) == c = "\n" \/ c = "\r" \/ c = " " \/ c = "\t"

\* ------------------------------------------------------------------------
\* Cursor
\* ------------------------------------------------------------------------
end_of(t) == Len(t) + 1

peek(t, c) == IF c = end_of(t) THEN NUL ELSE t[c]

\* ++cur without the test `cur == end`
next_cur_unchecked(t, c) == c + 1

next_cur(t, c) == IF c = end_of(t) THEN c ELSE c + 1

\* next returning the character it was called on
next_ch_stale(t, c) == peek(t, c)

next_ch(t, c) == IF c = end_of(t) THEN NUL ELSE peek(t, c + 1)

\* std::string(b, c): the characters at b .. c-1
slice(t, b, c) == SubSeq(t, b, c - 1)

\* ------------------------------------------------------------------------
\* std::unordered_map<std::string, std::string>
\* ------------------------------------------------------------------------
EmptyMap == [k \in {} |-> <<>>]

\* a lookup that ignores the case of the letters
FoldCase(k) == [i \in 1..Len(k) |-> IF k[i] = "a" THEN "A" ELSE k[i]]

map_find_nocase(m, k) == \E x \in DOMAIN m : FoldCase(x) = FoldCase(k)

map_find(m, k) == k \in DOMAIN m

\* insertion that replaces the value of a key already present
map_insert_or_assign(m, k, v) ==
    [x \in (DOMAIN m) \cup {k} |-> IF x = k THEN v ELSE m[x]]

map_emplace(m, k, v) ==
    IF k \in DOMAIN m THEN m
    ELSE [x \in (DOMAIN m) \cup {k} |-> IF x = k THEN v ELSE m[x]]

\* ------------------------------------------------------------------------
\* Input texts
\* ------------------------------------------------------------------------
\* every text of at most MaxLen characters
CharTexts == UNION {[1..n -> Chars] : n \in 0..MaxLen}

\* pieces of CONTROL text: fields, continuation lines, blank lines, a
\* malformed line, a character with code 0, in the line-terminator styles
Pieces ==
    { <<"A", ":", "1", "\n">>,
      <<"a", ":", " ", "#", "\r", "\n">>,
      <<"A", "-", "1", ":", "\n">>,
      <<" ", "#", "\n">>,
      <<"#", "\r", "\n">>,
      <<"\n">>,
      <<" ", "\t", "\n">>,
      <<"\r", "\n">>,
      <<"\r">>,
      <<" ">>,
      <<"A", " ", "1", "\n">>,
      <<"1", ":", NUL, "\n">>,
      <<NUL>> }

RECURSIVE Concat(_)
Concat(ps) == IF ps = <<>> THEN <<>> ELSE Head(ps) \o Concat(Tail(ps))

\* every text made of at most MaxLines pieces
LineTexts == {Concat(ps) : ps \in UNION {[1..n -> Pieces] : n \in 0..MaxLines}}

Texts == CharTexts \cup LineTexts

\* a file as Files::read_contents sees it: unreadable, with the error code
\* of the read, or its contents
Unreadable == [ok |-> FALSE, contents |-> <<>>, error |-> "no_such_file"]

Denied == [ok |-> FALSE, contents |-> <<>>, error |-> "permission_denied"]

File(t) == [ok |-> TRUE, contents |-> t]

Files == {Unreadable, Denied} \cup {File(t) : t \in CharTexts}

\* CONTROL files of a ports directory: unreadable, empty, one paragraph,
\* two paragraphs, a malformed field name, a duplicated field
ControlFiles ==
    { Unreadable,
      File(<<>>),
      File(<<"A", ":", "1", "\n">>),
      File(<<"a", ":", "1", "\n", " ", "#", "\n">>),
      File(<<"A", ":", "1", "\n", "\n", "a", ":", "1", "\n">>),
      File(<<"A", " ", "1", "\n">>),
      File(<<"A", ":", "1", "\n", "A", ":", "1", "\n">>) }

PortDirs == UNION {[1..n -> ControlFiles] : n \in 0..MaxPorts}

\* source paragraphs as extract_port_names_and_versions reads them: a name
\* and a version
PortNames == {"zlib", "curl"}

Versions == {"1.2.8", "1.2.11"}

SourceParagraphs == [name : PortNames, version : Versions]

PortLists == UNION {[1..n -> SourceParagraphs] : n \in 0..MaxPorts}

NoResult == [kind |-> "none"]

Value(v) == [kind |-> "value", value |-> v]

Error(e) == [kind |-> "error", code |-> e]

VARIABLES
    entry,      \* the entry point that was called
    arg,        \* its argument
    text,       \* Parser: the text [c, e)
    cur,        \* Parser::cur
    ch,         \* the lookahead `char ch` of get_paragraphs, passed by reference
    pc,         \* position in the code
    begin,      \* begin_fieldname / beginning_of_line
    fieldname,  \* get_paragraph's fieldname
    fieldvalue, \* get_paragraph's fieldvalue
    paragraphs, \* get_paragraphs' vector of maps
    exitmsg,    \* the message of the Checks::check_exit that ended the process
    it,         \* load_all_ports: the directory iterator
    output,     \* load_all_ports: the ports loaded so far
    names_and_versions, \* extract_port_names_and_versions: the map built
    result,     \* what the entry point returned
    prev        \* the outcome of the run before this one, if any

vars == <<entry, arg, prev, text, cur, ch, pc, begin, fieldname, fieldvalue,
          paragraphs, exitmsg, it, output, names_and_versions, result>>

parser_vars == <<text, cur, ch, begin, fieldname, fieldvalue, paragraphs>>

NoRun == [pc |-> "none"]

\* the program's variables as construction leaves them
Start ==
    /\ text = <<>>
    /\ cur = 1
    /\ ch = NUL
    /\ pc = "call"
    /\ begin = 1
    /\ fieldname = <<>>
    /\ fieldvalue = <<>>
    /\ paragraphs = <<>>
    /\ exitmsg = ""
    /\ it = 1
    /\ output = <<>>
    /\ names_and_versions = EmptyMap
    /\ result = NoResult

Init ==
    /\ \/ entry \in {"parse_paragraphs", "parse_single_paragraph"} /\ arg \in Texts
       \/ entry \in {"get_paragraphs", "get_single_paragraph"} /\ arg \in Files
       \/ entry = "load_all_ports" /\ arg \in PortDirs
       \/ entry = "extract_port_names_and_versions" /\ arg \in PortLists
    /\ prev = NoRun
    /\ Start

\* Parser(str.c_str(), str.c_str() + str.size()).get_paragraphs() up to the
\* head of its loop: the constructor, `char ch; peek(ch);`
StartParser(str) ==
    /\ text' = str
    /\ cur' = 1
    /\ ch' = peek(str, 1)
    /\ paragraphs' = <<>>
    /\ pc' = "loop"
    /\ UNCHANGED <<begin, fieldname, fieldvalue>>

\* ------------------------------------------------------------------------
\* Parser::get_paragraphs, the loop `while (ch != 0)`
\* ------------------------------------------------------------------------
\* the end test made after paragraphs.emplace_back()
get_paragraphs_end_emplaced ==
    /\ pc = "loop"
    /\ ch = NUL
    /\ paragraphs' = Append(paragraphs, EmptyMap)
    /\ pc' = "parsed"
    /\ UNCHANGED <<entry, arg, prev, text, cur, ch, begin, fieldname,
                   fieldvalue, exitmsg, it, output, names_and_versions, result>>

get_paragraphs_end ==
    /\ pc = "loop"
    /\ ch = NUL
    /\ pc' = "parsed"
    /\ UNCHANGED <<entry, arg, prev, parser_vars, exitmsg, it, output,
                   names_and_versions, result>>

get_paragraphs_skip ==
    /\ pc = "loop"
    /\ ch # NUL
    /\ is_blank(ch)
    /\ cur' = next_cur(text, cur)
    /\ ch' = next_ch(text, cur)
    /\ UNCHANGED <<entry, arg, prev, text, pc, begin, fieldname, fieldvalue,
                   paragraphs, exitmsg, it, output,
                   names_and_versions, result>>

\* paragraphs.emplace_back(); get_paragraph: fields.clear();
\* get_fieldname: begin_fieldname = cur
get_paragraphs_paragraph ==
    /\ pc = "loop"
    /\ ch # NUL
    /\ ~is_blank(ch)
    /\ paragraphs' = Append(paragraphs, EmptyMap)
    /\ begin' = cur
    /\ fieldname' = <<>>
    /\ fieldvalue' = <<>>
    /\ pc' = "fieldname"
    /\ UNCHANGED <<entry, arg, prev, text, cur, ch, exitmsg, it, output,
                   names_and_versions, result>>

\* ------------------------------------------------------------------------
\* Checks::check_exit(VCPKG_LINE_INFO, false, msg): the process ends
\* ------------------------------------------------------------------------
check_exit(msg) ==
    /\ pc' = "exited"
    /\ exitmsg' = msg

\* ------------------------------------------------------------------------
\* Parser::get_fieldname
\* ------------------------------------------------------------------------
get_fieldname_scan ==
    /\ pc = "fieldname"
    /\ is_alphanum(ch) \/ ch = "-"
    /\ cur' = next_cur(text, cur)
    /\ ch' = next_ch(text, cur)
    /\ UNCHANGED <<entry, arg, prev, text, pc, begin, fieldname, fieldvalue,
                   paragraphs, exitmsg, it, output,
                   names_and_versions, result>>

get_fieldname_exit ==
    /\ pc = "fieldname"
    /\ ~(is_alphanum(ch) \/ ch = "-")
    /\ ~(ch = ":")
    /\ check_exit("Expected ':'")
    /\ UNCHANGED <<entry, arg, prev, parser_vars, it, output,
                   names_and_versions, result>>

get_fieldname_colon ==
    /\ pc = "fieldname"
    /\ ~(is_alphanum(ch) \/ ch = "-")
    /\ ch = ":"
    /\ fieldname' = slice(text, begin, cur)
    /\ cur' = next_cur(text, cur)
    /\ ch' = next_ch(text, cur)
    /\ pc' = "colon"
    /\ UNCHANGED <<entry, arg, prev, text, begin, fieldvalue, paragraphs, exitmsg, it, output,
                   names_and_versions, result>>

\* ------------------------------------------------------------------------
\* Parser::skip_spaces, one iteration; called by get_fieldname after the
\* ':' and by get_fieldvalue at the start of a line
\* ------------------------------------------------------------------------
skip_spaces ==
    /\ pc \in {"colon", "line"}
    /\ is_space(ch)
    /\ cur' = next_cur(text, cur)
    /\ ch' = next_ch(text, cur)
    /\ UNCHANGED <<entry, arg, prev, text, pc, begin, fieldname, fieldvalue,
                   paragraphs, exitmsg, it, output,
                   names_and_versions, result>>

\* ------------------------------------------------------------------------
\* Parser::get_paragraph after get_fieldname returned
\* ------------------------------------------------------------------------
get_paragraph_duplicate ==
    /\ pc = "colon"
    /\ ~is_space(ch)
    /\ map_find(paragraphs[Len(paragraphs)], fieldname)
    /\ check_exit("Duplicate field")
    /\ UNCHANGED <<entry, arg, prev, parser_vars, it, output,
                   names_and_versions, result>>

\* get_fieldvalue: fieldvalue.clear(); beginning_of_line = cur
get_paragraph_value ==
    /\ pc = "colon"
    /\ ~is_space(ch)
    /\ ~map_find(paragraphs[Len(paragraphs)], fieldname)
    /\ fieldvalue' = <<>>
    /\ begin' = cur
    /\ pc' = "value"
    /\ UNCHANGED <<entry, arg, prev, text, cur, ch, fieldname, paragraphs, exitmsg, it, output,
                   names_and_versions, result>>

\* ------------------------------------------------------------------------
\* Parser::get_fieldvalue
\* ------------------------------------------------------------------------
get_fieldvalue_scan ==
    /\ pc = "value"
    /\ ~is_lineend(ch)
    /\ cur' = next_cur(text, cur)
    /\ ch' = next_ch(text, cur)
    /\ UNCHANGED <<entry, arg, prev, text, pc, begin, fieldname, fieldvalue,
                   paragraphs, exitmsg, it, output,
                   names_and_versions, result>>

\* the cursor and lookahead after `if (ch == '\r') next(ch);`
after_cr(t, c, k) ==
    IF k = "\r" THEN <<next_cur(t, c), next_ch(t, c)>> ELSE <<c, k>>

\* ... and after `if (ch == '\n') next(ch);`
after_lf(t, c, k) ==
    IF k = "\n" THEN <<next_cur(t, c), next_ch(t, c)>> ELSE <<c, k>>

\* only `if (ch == '\n') next(ch);`
after_terminator_lf_only(t, c, k) == after_lf(t, c, k)

after_terminator(t, c, k) ==
    after_lf(t, after_cr(t, c, k)[1], after_cr(t, c, k)[2])

\* get_paragraph's fields.emplace(fieldname, fieldvalue) on paragraphs.back(),
\* then its loop condition `while (!is_lineend(ch))`
get_paragraph_emplace(value, k) ==
    /\ paragraphs' = [paragraphs EXCEPT ![Len(paragraphs)] =
                          map_emplace(@, fieldname, value)]
    /\ pc' = IF ~is_lineend(k) THEN "fieldname" ELSE "loop"

\* end of a physical line, and the next line begins a new field
get_fieldvalue_newfield ==
    /\ pc = "value"
    /\ is_lineend(ch)
    /\ LET a == after_terminator(text, cur, ch)
           v == fieldvalue \o slice(text, begin, cur)
       IN  /\ is_alphanum(a[2])
           /\ fieldvalue' = v
           /\ cur' = a[1]
           /\ ch' = a[2]
           /\ begin' = a[1]
           /\ get_paragraph_emplace(v, a[2])
    /\ UNCHANGED <<entry, arg, prev, text, fieldname, exitmsg, it, output,
                   names_and_versions, result>>

\* end of a physical line, and the next line does not begin a new field
get_fieldvalue_line ==
    /\ pc = "value"
    /\ is_lineend(ch)
    /\ LET a == after_terminator(text, cur, ch)
       IN  /\ ~is_alphanum(a[2])
           /\ fieldvalue' = fieldvalue \o slice(text, begin, cur)
           /\ cur' = a[1]
           /\ ch' = a[2]
           /\ begin' = a[1]
           /\ pc' = "line"
    /\ UNCHANGED <<entry, arg, prev, text, fieldname, paragraphs, exitmsg, it, output,
                   names_and_versions, result>>

\* fieldvalue.push_back('\n') made before the test for a blank line
get_fieldvalue_blank_pushed ==
    /\ pc = "line"
    /\ ~is_space(ch)
    /\ is_lineend(ch)
    /\ get_paragraph_emplace(Append(fieldvalue, "\n"), ch)
    /\ UNCHANGED <<entry, arg, prev, text, cur, ch, begin, fieldname, fieldvalue,
                   exitmsg, it, output, names_and_versions, result>>

\* the line was whitespace or empty: the field and the paragraph end
get_fieldvalue_blank ==
    /\ pc = "line"
    /\ ~is_space(ch)
    /\ is_lineend(ch)
    /\ get_paragraph_emplace(fieldvalue, ch)
    /\ UNCHANGED <<entry, arg, prev, text, cur, ch, begin, fieldname, fieldvalue,
                   exitmsg, it, output, names_and_versions, result>>

\* the line continues the value: fieldvalue.push_back('\n')
get_fieldvalue_continue ==
    /\ pc = "line"
    /\ ~is_space(ch)
    /\ ~is_lineend(ch)
    /\ fieldvalue' = Append(fieldvalue, "\n")
    /\ pc' = "value"
    /\ UNCHANGED <<entry, arg, prev, text, cur, ch, begin, fieldname, paragraphs,
                   exitmsg, it, output, names_and_versions, result>>

Parser ==
    \/ get_paragraphs_end
    \/ get_paragraphs_skip
    \/ get_paragraphs_paragraph
    \/ get_fieldname_scan
    \/ get_fieldname_exit
    \/ get_fieldname_colon
    \/ skip_spaces
    \/ get_paragraph_duplicate
    \/ get_paragraph_value
    \/ get_fieldvalue_scan
    \/ get_fieldvalue_newfield
    \/ get_fieldvalue_line
    \/ get_fieldvalue_blank
    \/ get_fieldvalue_continue

\* ------------------------------------------------------------------------
\* Entry points
\* ------------------------------------------------------------------------
read_contents(f) == IF f.ok THEN Value(f.contents) ELSE Error(f.error)

\* `p.size() >= 1` in place of `p.size() == 1`
single_paragraph_at_least_one(p) ==
    IF Len(p) >= 1 THEN Value(p[1]) ELSE Error("EXPECTED_ONE_PARAGRAPH")

\* parse_single_paragraph after the parser returned p
single_paragraph(p) ==
    IF Len(p) = 1 THEN Value(p[1]) ELSE Error("EXPECTED_ONE_PARAGRAPH")

\* SourceParagraph(fields): the projection of a paragraph into a port
SourceParagraph(p) == [fields |-> p]

parse_paragraphs ==
    /\ pc = "call"
    /\ entry = "parse_paragraphs"
    /\ StartParser(arg)
    /\ UNCHANGED <<entry, arg, prev, exitmsg, it, output,
                   names_and_versions, result>>

parse_single_paragraph ==
    /\ pc = "call"
    /\ entry = "parse_single_paragraph"
    /\ StartParser(arg)
    /\ UNCHANGED <<entry, arg, prev, exitmsg, it, output,
                   names_and_versions, result>>

\* get_paragraphs(control_path) and get_single_paragraph(control_path)
\* a failed read taken as an empty file
get_file_error_as_empty ==
    /\ pc = "call"
    /\ entry \in {"get_paragraphs", "get_single_paragraph"}
    /\ read_contents(arg).kind = "error"
    /\ StartParser(<<>>)
    /\ UNCHANGED <<entry, arg, prev, exitmsg, it, output,
                   names_and_versions, result>>

get_file_error ==
    /\ pc = "call"
    /\ entry \in {"get_paragraphs", "get_single_paragraph"}
    /\ read_contents(arg).kind = "error"
    /\ result' = read_contents(arg)
    /\ pc' = "done"
    /\ UNCHANGED <<entry, arg, prev, parser_vars, exitmsg, it, output,
                   names_and_versions>>

get_file_parse ==
    /\ pc = "call"
    /\ entry \in {"get_paragraphs", "get_single_paragraph"}
    /\ read_contents(arg).kind = "value"
    /\ StartParser(read_contents(arg).value)
    /\ UNCHANGED <<entry, arg, prev, exitmsg, it, output,
                   names_and_versions, result>>

\* the Document built so far handed back after a failed check as well
parse_paragraphs_return_partial ==
    /\ pc \in {"parsed", "exited"}
    /\ entry \in {"parse_paragraphs", "get_paragraphs"}
    /\ result' = Value(paragraphs)
    /\ pc' = "done"
    /\ UNCHANGED <<entry, arg, prev, parser_vars, exitmsg, it, output,
                   names_and_versions>>

parse_paragraphs_return ==
    /\ pc = "parsed"
    /\ entry \in {"parse_paragraphs", "get_paragraphs"}
    /\ result' = Value(paragraphs)
    /\ pc' = "done"
    /\ UNCHANGED <<entry, arg, prev, parser_vars, exitmsg, it, output,
                   names_and_versions>>

parse_single_paragraph_return ==
    /\ pc = "parsed"
    /\ entry \in {"parse_single_paragraph", "get_single_paragraph"}
    /\ result' = single_paragraph(paragraphs)
    /\ pc' = "done"
    /\ UNCHANGED <<entry, arg, prev, parser_vars, exitmsg, it, output,
                   names_and_versions>>

\* load_all_ports: `output` declared, the iterator at the first directory
load_all_ports ==
    /\ pc = "call"
    /\ entry = "load_all_ports"
    /\ output' = <<>>
    /\ it' = 1
    /\ pc' = "iterate"
    /\ UNCHANGED <<entry, arg, prev, parser_vars, exitmsg, names_and_versions,
                   result>>

load_all_ports_return ==
    /\ pc = "iterate"
    /\ it = Len(arg) + 1
    /\ result' = Value(output)
    /\ pc' = "done"
    /\ UNCHANGED <<entry, arg, prev, parser_vars, exitmsg, it, output,
                   names_and_versions>>

\* try_load_port -> get_single_paragraph: the CONTROL file is unreadable,
\* source_paragraph.get() is null, ++it
try_load_port_error ==
    /\ pc = "iterate"
    /\ it # Len(arg) + 1
    /\ read_contents(arg[it]).kind = "error"
    /\ it' = it + 1
    /\ UNCHANGED <<entry, arg, prev, parser_vars, pc, exitmsg, output,
                   names_and_versions, result>>

try_load_port_parse ==
    /\ pc = "iterate"
    /\ it # Len(arg) + 1
    /\ read_contents(arg[it]).kind = "value"
    /\ StartParser(read_contents(arg[it]).value)
    /\ UNCHANGED <<entry, arg, prev, exitmsg, it, output,
                   names_and_versions, result>>

\* parse_single_paragraph returned to try_load_port, that to load_all_ports
try_load_port_return ==
    /\ pc = "parsed"
    /\ entry = "load_all_ports"
    /\ output' = IF single_paragraph(paragraphs).kind = "value"
                  THEN Append(output, SourceParagraph(single_paragraph(paragraphs).value))
                  ELSE output
    /\ it' = it + 1
    /\ pc' = "iterate"
    /\ UNCHANGED <<entry, arg, prev, parser_vars, exitmsg, names_and_versions,
                   result>>

\* extract_port_names_and_versions: `names_and_versions` declared, the
\* range-for at the first source paragraph
extract_port_names_and_versions ==
    /\ pc = "call"
    /\ entry = "extract_port_names_and_versions"
    /\ names_and_versions' = EmptyMap
    /\ it' = 1
    /\ pc' = "extract"
    /\ UNCHANGED <<entry, arg, prev, parser_vars, exitmsg, output, result>>

\* names_and_versions.emplace(port.name, port.version)
extract_emplace ==
    /\ pc = "extract"
    /\ it # Len(arg) + 1
    /\ names_and_versions' =
           map_emplace(names_and_versions, arg[it].name, arg[it].version)
    /\ it' = it + 1
    /\ UNCHANGED <<entry, arg, prev, parser_vars, pc, exitmsg, output, result>>

extract_return ==
    /\ pc = "extract"
    /\ it = Len(arg) + 1
    /\ result' = Value(names_and_versions)
    /\ pc' = "done"
    /\ UNCHANGED <<entry, arg, prev, parser_vars, exitmsg, it, output,
                   names_and_versions>>

Next ==
    \/ Parser
    \/ parse_paragraphs
    \/ parse_single_paragraph
    \/ get_file_error
    \/ get_file_parse
    \/ parse_paragraphs_return
    \/ parse_single_paragraph_return
    \/ load_all_ports
    \/ load_all_ports_return
    \/ try_load_port_error
    \/ try_load_port_parse
    \/ try_load_port_return
    \/ extract_port_names_and_versions
    \/ extract_emplace
    \/ extract_return

Spec == Init /\ [][Next]_vars

\* ------------------------------------------------------------------------
\* Two runs on related inputs: after a run of parse_paragraphs(str) ended,
\* the program is run again, on parse_single_paragraph(str) or on
\* parse_paragraphs of str with every "\n" replaced by "\r\n"; after a run
\* of parse_paragraphs(str) or parse_single_paragraph(str) it is run again
\* on the entry point of the same kind that reads a file holding str
\* ------------------------------------------------------------------------
RECURSIVE ToCRLF(_)
ToCRLF(t) ==
    IF t = <<>> THEN <<>>
    ELSE (IF Head(t) = "\n" THEN <<"\r", "\n">> ELSE <<Head(t)>>) \o ToCRLF(Tail(t))

HasCR(t) == \E i \in 1..Len(t) : t[i] = "\r"

\* a new run: the program's variables as construction leaves them
Restart ==
    /\ text' = <<>>
    /\ cur' = 1
    /\ ch' = NUL
    /\ pc' = "call"
    /\ begin' = 1
    /\ fieldname' = <<>>
    /\ fieldvalue' = <<>>
    /\ paragraphs' = <<>>
    /\ exitmsg' = ""
    /\ it' = 1
    /\ output' = <<>>
    /\ names_and_versions' = EmptyMap
    /\ result' = NoResult

Outcome == [pc |-> pc, entry |-> entry, arg |-> arg, exitmsg |-> exitmsg,
            result |-> result]

second_run_single ==
    /\ prev = NoRun
    /\ pc \in {"done", "exited"}
    /\ entry = "parse_paragraphs"
    /\ prev' = Outcome
    /\ entry' = "parse_single_paragraph"
    /\ arg' = arg
    /\ Restart

second_run_crlf ==
    /\ prev = NoRun
    /\ pc \in {"done", "exited"}
    /\ entry = "parse_paragraphs"
    /\ ~HasCR(arg)
    /\ prev' = Outcome
    /\ entry' = "parse_paragraphs"
    /\ arg' = ToCRLF(arg)
    /\ Restart

second_run_file ==
    /\ prev = NoRun
    /\ pc \in {"done", "exited"}
    /\ entry \in {"parse_paragraphs", "parse_single_paragraph"}
    /\ File(arg) \in Files
    /\ prev' = Outcome
    /\ entry' = IF entry = "parse_paragraphs" THEN "get_paragraphs"
                                               ELSE "get_single_paragraph"
    /\ arg' = File(arg)
    /\ Restart

NextRuns ==
    \/ Next
    \/ second_run_single
    \/ second_run_crlf
    \/ second_run_file

SpecRuns == Init /\ [][NextRuns]_vars

\* ========================================================================
\* Properties
\* ========================================================================
\* the vocabulary of the properties, independent of the scanner's tests
HSpace == {" ", "\t"}

AlphaNumeric == {"A", "a", "1"}

NameChars == AlphaNumeric \cup {"-"}

Terminators == {"\r", "\n"}

CharAt(i) == IF i \in 1..Len(text) THEN text[i] ELSE "end-of-input"

\* the position of the character that ended the field-name run
ColonPos == begin + Len(fieldname)

\* ------------------------------------------------------------------------
\* The text format, read off the text alone: physical lines end at "\r\n",
\* "\n", "\r" or the end of the text
\* ------------------------------------------------------------------------
Min(S) == CHOOSE x \in S : \A y \in S : x <= y

\* the end of the physical line that holds position p
EndOfLine(t, p) == Min({e \in p..(Len(t) + 1) : e = Len(t) + 1 \/ t[e] \in Terminators})

\* the first position at or after p that holds no space or tab
PastSpaces(t, p) == Min({e \in p..(Len(t) + 1) : e = Len(t) + 1 \/ t[e] \notin HSpace})

\* the start of the line after the terminator at e
AfterLine(t, e) ==
    IF e > Len(t) THEN e + 1
    ELSE IF t[e] = "\r" /\ e + 1 <= Len(t) /\ t[e + 1] = "\n" THEN e + 2
    ELSE e + 1

IsBlankLine(l) == \A j \in 1..Len(l) : l[j] \in HSpace

\* a line that continues a value: its first character is not alphanumeric
\* and it holds a character other than space and tab
IsContinuation(l) == l # <<>> /\ l[1] \notin AlphaNumeric /\ ~IsBlankLine(l)

\* what the continuation lines after the line ending at e add to a value
RECURSIVE Continuations(_, _)
Continuations(t, e) ==
    IF e > Len(t) THEN <<>>
    ELSE LET ls == AfterLine(t, e)
             le == EndOfLine(t, ls)
             l  == SubSeq(t, ls, le - 1)
         IN  IF IsContinuation(l) THEN <<"\n">> \o l \o Continuations(t, le) ELSE <<>>

\* the value of the field whose ':' is at position q
ExpectedValue(t, q) ==
    LET p == PastSpaces(t, q + 1)
        e == EndOfLine(t, p)
    IN  SubSeq(t, p, e - 1) \o Continuations(t, e)

\* C1: every stored value is the text after a "name:" of the input, leading
\* spaces/tabs removed, up to the end of the physical line, followed by
\* '\n' and the verbatim line for each continuation line.
FieldValuesFromText ==
    \A i \in 1..Len(paragraphs) : \A n \in DOMAIN paragraphs[i] :
        \E q \in (Len(n) + 1)..Len(text) :
            /\ text[q] = ":"
            /\ SubSeq(text, q - Len(n), q - 1) = n
            /\ paragraphs[i][n] = ExpectedValue(text, q)

C1_ValueIsFirstLinePlusContinuations ==
    (entry = "parse_paragraphs" /\ pc = "done" /\ result.kind = "value") =>
        (result.value = paragraphs /\ FieldValuesFromText)

\* the same, for the texts that hold no character with code 0
C1_ValueWithoutNUL ==
    (entry = "parse_paragraphs" /\ pc = "done" /\ result.kind = "value"
        /\ \A j \in 1..Len(text) : text[j] # NUL) =>
        (result.value = paragraphs /\ FieldValuesFromText)

\* C2: load_all_ports returns exactly the ports whose CONTROL file loads
\* and never aborts for the ones that do not load.
Loads(f) ==
    f \in { [ok |-> TRUE, contents |-> <<"A", ":", "1", "\n">>],
            [ok |-> TRUE, contents |-> <<"a", ":", "1", "\n", " ", "#", "\n">>] }

C2_LoadAllPortsDropsFailures ==
    entry = "load_all_ports" =>
        /\ pc # "exited"
        /\ pc = "done" =>
               /\ result.kind = "value"
               /\ Len(result.value) = Cardinality({i \in 1..Len(arg) : Loads(arg[i])})

\* C3: every field name of every paragraph of a returned Document is a
\* non-empty string over [A-Za-z0-9-].
C3_FieldNamesNonEmptyNameChars ==
    (entry = "parse_paragraphs" /\ pc = "done" /\ result.kind = "value") =>
        \A i \in 1..Len(result.value) : \A n \in DOMAIN result.value[i] :
            /\ Len(n) >= 1
            /\ \A j \in 1..Len(n) : n[j] \in NameChars

\* C4: when the field name just read is already among the fields of the
\* current paragraph (raw case-sensitive comparison) the parse fails with
\* "Duplicate field" and nothing is returned; otherwise, whatever the earlier
\* paragraphs hold, the parse goes on to read the value.
NameRead == pc = "colon" /\ CharAt(cur) \notin HSpace

C4_Step ==
    /\ (NameRead /\ fieldname \in DOMAIN paragraphs[Len(paragraphs)]) =>
           (pc' = "exited" /\ exitmsg' = "Duplicate field" /\ result' = [kind |-> "none"])
    /\ (NameRead /\ fieldname \notin DOMAIN paragraphs[Len(paragraphs)]) =>
           (pc' = "value" /\ exitmsg' = "" /\ paragraphs' = paragraphs)
    /\ pc = "exited" => (pc' = "exited" /\ result' = [kind |-> "none"])
    /\ paragraphs' # paragraphs =>
           \/ paragraphs' = <<>>
           \/ paragraphs' = Append(paragraphs, [k \in {} |-> <<>>])
           \/ /\ Len(paragraphs') = Len(paragraphs)
              /\ \A i \in 1..(Len(paragraphs) - 1) : paragraphs'[i] = paragraphs[i]
              /\ fieldname \notin DOMAIN paragraphs[Len(paragraphs)]
              /\ DOMAIN paragraphs'[Len(paragraphs)] =
                     DOMAIN paragraphs[Len(paragraphs)] \cup {fieldname}

C4_DuplicateFieldFails == [][C4_Step]_vars

C4_Witness ==
    /\ pc = "exited"
    /\ exitmsg = "Duplicate field"
    /\ fieldname = <<"A">>
    /\ result = [kind |-> "none"]

\* C5: a field-name run ended by anything but ':' fails with "Expected ':'";
\* ended by ':', the ':' and the spaces/tabs right after it are consumed
\* and the cursor is left on the first character of the value.
NameRunEnded == pc = "fieldname" /\ CharAt(cur) \notin NameChars

C5_Step ==
    /\ (NameRunEnded /\ CharAt(cur) # ":") =>
           (pc' = "exited" /\ exitmsg' = "Expected ':'" /\ result' = [kind |-> "none"])
    /\ (NameRunEnded /\ CharAt(cur) = ":") =>
           (pc' = "colon" /\ cur' = cur + 1 /\ fieldname' = SubSeq(text, begin, cur - 1))
    /\ (pc = "colon" /\ pc' # "colon") =>
           /\ CharAt(ColonPos) = ":"
           /\ cur > ColonPos
           /\ \A i \in (ColonPos + 1)..(cur - 1) : CharAt(i) \in HSpace
           /\ CharAt(cur) \notin HSpace
           /\ cur' = cur

C5_FieldNameTerminator == [][C5_Step]_vars

C5_Witness ==
    /\ pc = "exited"
    /\ exitmsg = "Expected ':'"
    /\ cur > begin
    /\ CharAt(cur) = " "

\* C6: parse_single_paragraph(text) returns the paragraph exactly when
\* parse_paragraphs(text) returned a Document of one paragraph, and fails
\* with EXPECTED_ONE_PARAGRAPH when that Document has zero or several.
SecondRunOfSingle ==
    /\ prev # NoRun
    /\ entry = "parse_single_paragraph"
    /\ pc \in {"done", "exited"}

C6_SingleParagraphExactlyOne ==
    SecondRunOfSingle =>
        /\ prev.pc = "exited" => pc = "exited"
        /\ prev.pc = "done" =>
               /\ pc = "done"
               /\ Len(prev.result.value) = 1 =>
                      result = [kind |-> "value", value |-> prev.result.value[1]]
               /\ Len(prev.result.value) # 1 =>
                      result = [kind |-> "error", code |-> "EXPECTED_ONE_PARAGRAPH"]
        /\ (\A i \in 1..Len(arg) : arg[i] \in HSpace \cup Terminators) =>
               result = [kind |-> "error", code |-> "EXPECTED_ONE_PARAGRAPH"]

C6_Witness ==
    /\ SecondRunOfSingle
    /\ pc = "done"
    /\ Len(prev.result.value) = 2
    /\ result.kind = "error"

\* ------------------------------------------------------------------------
\* A document, read off the text alone: blank characters, then paragraphs
\* of field lines and continuation lines, separated by blank lines
\* ------------------------------------------------------------------------
RECURSIVE LinesFrom(_, _)
LinesFrom(t, p) ==
    IF p > Len(t) THEN <<>>
    ELSE <<SubSeq(t, p, EndOfLine(t, p) - 1)>> \o LinesFrom(t, AfterLine(t, EndOfLine(t, p)))

\* the physical lines of t from its first character that is not blank
BodyLines(t) ==
    LinesFrom(t, Min({e \in 1..(Len(t) + 1) :
                          e = Len(t) + 1 \/ t[e] \notin HSpace \cup Terminators}))

NameEnd(l) == Min({k \in 1..(Len(l) + 1) : k = Len(l) + 1 \/ l[k] \notin NameChars})

\* `FieldName: value` with FieldName in [A-Za-z0-9-]+
IsFieldLine(l) == NameEnd(l) >= 2 /\ NameEnd(l) <= Len(l) /\ l[NameEnd(l)] = ":"

FieldNameOf(l) == SubSeq(l, 1, NameEnd(l) - 1)

StartsParagraph(L, k) == ~IsBlankLine(L[k]) /\ (k = 1 \/ IsBlankLine(L[k - 1]))

\* the number of the paragraph that line k belongs to
ParagraphOf(L, k) == Cardinality({j \in 1..k : StartsParagraph(L, j)})

\* line k begins a field: it is the first line of its paragraph, or starts
\* with an alphanumeric character
BeginsField(L, k) ==
    ~IsBlankLine(L[k]) /\ (StartsParagraph(L, k) \/ L[k][1] \in AlphaNumeric)

FieldLinesOf(L, i) == {k \in 1..Len(L) : BeginsField(L, k) /\ ParagraphOf(L, k) = i}

NamesOf(L, i) == {FieldNameOf(L[k]) : k \in FieldLinesOf(L, i)}

\* the name of the first field of paragraph i
FirstNameOf(L, i) ==
    FieldNameOf(L[Min({k \in 1..Len(L) : StartsParagraph(L, k) /\ ParagraphOf(L, k) = i})])

NumParagraphs(L) == Cardinality({k \in 1..Len(L) : StartsParagraph(L, k)})

\* every line that begins a field is a field line, and the names of a
\* paragraph are distinct
WellFormed(L) ==
    /\ \A k \in 1..Len(L) : BeginsField(L, k) => IsFieldLine(L[k])
    /\ \A i \in 1..NumParagraphs(L) :
           Cardinality(NamesOf(L, i)) = Cardinality(FieldLinesOf(L, i))

OneParagraphPerSourceParagraph ==
    WellFormed(BodyLines(arg)) =>
        /\ pc # "exited"
        /\ pc = "done" =>
               /\ result.kind = "value"
               /\ Len(result.value) = NumParagraphs(BodyLines(arg))
               /\ \A i \in 1..Len(result.value) :
                      FirstNameOf(BodyLines(arg), i) \in DOMAIN result.value[i]

\* C7: for a text of well-formed paragraphs separated by blank lines, with
\* blank characters before and after, parse_paragraphs returns one
\* paragraph per source paragraph, in order (the i-th holds the first
\* field of the i-th source paragraph), however many blank lines there are.
C7_OneParagraphPerSourceParagraph ==
    (entry = "parse_paragraphs" /\ prev = NoRun) => OneParagraphPerSourceParagraph

\* the same, for the texts that hold no character with code 0, and with
\* every field name of every paragraph
C7_ParagraphsWithoutNUL ==
    (entry = "parse_paragraphs" /\ prev = NoRun /\ \A j \in 1..Len(arg) : arg[j] # NUL) =>
        /\ OneParagraphPerSourceParagraph
        /\ (WellFormed(BodyLines(arg)) /\ pc = "done") =>
               \A i \in 1..Len(result.value) :
                   DOMAIN result.value[i] = NamesOf(BodyLines(arg), i)

\* C8: a text without '\r' and the same text with every "\n" replaced by
\* "\r\n" have the same outcome from parse_paragraphs: the same failure, or
\* the same Document (paragraphs, field names, field values).
SecondRunOfCRLF ==
    /\ prev # NoRun
    /\ entry = "parse_paragraphs"
    /\ pc \in {"done", "exited"}

C8_CRLFSameOutcome ==
    SecondRunOfCRLF =>
        /\ pc = prev.pc
        /\ exitmsg = prev.exitmsg
        /\ result = prev.result

C8_Witness ==
    /\ SecondRunOfCRLF
    /\ pc = "done"
    /\ \E i \in 1..Len(arg) : arg[i] = "\r"
    /\ Len(result.value) >= 1
    /\ \E n \in DOMAIN result.value[1] :
           \E j \in 1..Len(result.value[1][n]) : result.value[1][n][j] = "\n"

\* C9: no stored field value contains '\r'; a value grows only by a slice
\* of the text free of '\r' and '\n' or by the single '\n' of a
\* continuation join, and is stored as it was built.
NoCRLF(v) == \A j \in 1..Len(v) : v[j] \notin {"\r", "\n"}

C9_Step ==
    /\ \A i \in 1..Len(paragraphs') : \A n \in DOMAIN paragraphs'[i] :
           \A j \in 1..Len(paragraphs'[i][n]) : paragraphs'[i][n][j] # "\r"
    /\ fieldvalue' # fieldvalue =>
           \/ fieldvalue' = <<>>
           \/ /\ fieldvalue' = fieldvalue \o <<"\n">>
              /\ pc = "line" /\ pc' = "value"
              /\ CharAt(cur) \notin HSpace \cup Terminators \cup {NUL, "end-of-input"}
           \/ /\ fieldvalue' = fieldvalue \o SubSeq(text, begin, cur - 1)
              /\ NoCRLF(SubSeq(text, begin, cur - 1))
    /\ (paragraphs' # paragraphs /\ Len(paragraphs') = Len(paragraphs) /\ paragraphs' # <<>>) =>
           paragraphs'[Len(paragraphs)][fieldname] = fieldvalue'

C9_NoCarriageReturnInValues == [][C9_Step]_vars

C9_Witness ==
    /\ pc = "done"
    /\ entry = "parse_paragraphs"
    /\ \E i \in 1..Len(text) : text[i] = "\r"
    /\ \E i \in 1..Len(paragraphs) : \E n \in DOMAIN paragraphs[i] :
           \E j \in 1..Len(paragraphs[i][n]) : paragraphs[i][n][j] = "\n"

\* C10: parsing terminates.  Every state inside the scanner has a step to
\* take that changes the state, and every such step strictly decreases a
\* natural-number measure: 8 for each character still ahead of the cursor
\* plus a rank of the position in the code.  At the head of the document
\* loop the rank is constant, so between two evaluations of the loop
\* condition the cursor has moved: every iteration consumes a character,
\* unless it ends the run with an error.
InScanner == pc \in {"loop", "fieldname", "colon", "value", "line"}

Terminated == pc \in {"done", "exited"}

AtLineEnd == CharAt(cur) \in Terminators \cup {NUL, "end-of-input"}

Rank ==
    CASE pc = "fieldname" -> 1
      [] pc = "loop" -> 2
      [] pc = "line" -> IF AtLineEnd THEN 3 ELSE 5
      [] pc = "value" -> 4
      [] pc = "colon" -> 6
      [] OTHER -> 0

Measure == IF InScanner THEN 8 * (Len(text) + 1 - cur) + Rank ELSE 0

C10_Step ==
    InScanner =>
        /\ InScanner' \/ pc' \in {"parsed", "exited"}
        /\ Measure' \in Nat
        /\ Measure' < Measure
        /\ cur' >= cur
        /\ (pc = "loop" /\ pc' = "loop") => cur' = cur + 1

C10_ParsingTerminates ==
    /\ [](Terminated \/ ENABLED <<Next>>_vars)
    /\ [][C10_Step]_vars

C10_Witness ==
    /\ pc = "done"
    /\ Len(paragraphs) = 1
    /\ Len(text) >= 2
    /\ text[Len(text)] \in HSpace
    /\ text[Len(text) - 1] = "\n"

\* C11: parsing is all-or-nothing.  A failed check ends the run at once:
\* the run stops where the check failed, with nothing returned, whatever
\* paragraphs and fields were completed before, and nothing happens after.
C11_Step ==
    /\ (pc # "exited" /\ pc' = "exited") =>
           /\ pc \in {"fieldname", "colon"}
           /\ exitmsg' \in {"Expected ':'", "Duplicate field"}
           /\ result = [kind |-> "none"]
           /\ result' = [kind |-> "none"]
           /\ cur' = cur
    /\ pc = "exited" => UNCHANGED vars

C11_AllOrNothing == [][C11_Step]_vars

C11_Witness ==
    /\ pc = "exited"
    /\ entry = "parse_paragraphs"
    /\ Len(paragraphs) = 2
    /\ DOMAIN paragraphs[1] # {}
    /\ result = [kind |-> "none"]

\* C12: get_single_paragraph(path) and get_paragraphs(path) on a file that
\* cannot be read return exactly the error of the read and never run the
\* parser; on a file that can be read they end as parse_single_paragraph
\* and parse_paragraphs end on the text read.
SecondRunOnFile ==
    /\ prev # NoRun
    /\ entry \in {"get_paragraphs", "get_single_paragraph"}

C12_Step ==
    (pc = "call" /\ entry \in {"get_paragraphs", "get_single_paragraph"}
                 /\ ~arg.ok) =>
        /\ pc' = "done"
        /\ result' = [kind |-> "error", code |-> arg.error]
        /\ UNCHANGED <<text, cur, ch, paragraphs, exitmsg>>

C12_SameAsOnText ==
    (SecondRunOnFile /\ pc \in {"done", "exited"}) =>
        /\ arg.ok
        /\ prev.arg = arg.contents
        /\ prev.entry = IF entry = "get_paragraphs" THEN "parse_paragraphs"
                                                    ELSE "parse_single_paragraph"
        /\ pc = prev.pc
        /\ result = prev.result
        /\ exitmsg = prev.exitmsg

C12_FileEntryPoints == [](C12_SameAsOnText) /\ [][C12_Step]_vars

C12_Witness ==
    /\ SecondRunOnFile
    /\ entry = "get_single_paragraph"
    /\ pc = "done"
    /\ result.kind = "value"

\* C13: extract_port_names_and_versions returns a map whose keys are
\* exactly the names in the sequence, each mapped to the version of the
\* first port of the sequence that has that name.
FirstWithName(n) ==
    CHOOSE i \in 1..Len(arg) :
        /\ arg[i].name = n
        /\ \A j \in 1..(i - 1) : arg[j].name # n

C13_FirstVersionWins ==
    (entry = "extract_port_names_and_versions" /\ pc = "done") =>
        /\ result.kind = "value"
        /\ DOMAIN result.value = {arg[i].name : i \in 1..Len(arg)}
        /\ \A n \in DOMAIN result.value :
               result.value[n] = arg[FirstWithName(n)].version

C13_Witness ==
    /\ entry = "extract_port_names_and_versions"
    /\ pc = "done"
    /\ Len(arg) = 2
    /\ arg[1].name = arg[2].name
    /\ arg[1].version # arg[2].version
    /\ result.value[arg[1].name] = arg[1].version

\* C14: every Paragraph of every returned Document has at least one field:
\* a paragraph is only left once a name/value pair was inserted into it.
HasField(p) == DOMAIN p # {}

C14_ParagraphsHaveAField ==
    /\ pc \in {"loop", "parsed"} =>
           \A i \in 1..Len(paragraphs) : HasField(paragraphs[i])
    /\ InScanner =>
           \A i \in 1..(Len(paragraphs) - 1) : HasField(paragraphs[i])
    /\ (result.kind = "value"
           /\ entry \in {"parse_paragraphs", "get_paragraphs"}) =>
           \A i \in 1..Len(result.value) : HasField(result.value[i])
    /\ (result.kind = "value"
           /\ entry \in {"parse_single_paragraph", "get_single_paragraph"}) =>
           HasField(result.value)
    /\ entry = "load_all_ports" =>
           \A i \in 1..Len(output) : HasField(output[i].fields)

C14_Witness ==
    /\ pc = "done"
    /\ entry = "parse_paragraphs"
    /\ result.kind = "value"
    /\ Len(result.value) = 2
    /\ \A i \in 1..2 : Cardinality(DOMAIN result.value[i]) = 1

\* C15: every time get_fieldname is invoked, the current character is
\* alphanumeric.
FieldNameInvoked == pc # "fieldname" /\ pc' = "fieldname"

C15_Step == FieldNameInvoked => CharAt(cur)' \in AlphaNumeric

C15_FieldNameStartsAlphanumeric == [][C15_Step]_vars

\* what holds instead: the invocations for the second and later fields of
\* a paragraph are on an alphanumeric character; the one for the first
\* field is on any character that is neither blank nor 0
C15_LaterStep ==
    FieldNameInvoked =>
        IF pc = "loop"
        THEN /\ CharAt(cur)' \notin HSpace \cup Terminators \cup {NUL}
             /\ CharAt(cur)' # "end-of-input"
        ELSE CharAt(cur)' \in AlphaNumeric

C15_LaterFieldsStartAlphanumeric == [][C15_LaterStep]_vars

\* C16: whenever get_fieldvalue returns, the current character is either
\* alphanumeric, at the start of a line with nothing of it consumed, and
\* the paragraph reads another field; or it is a line terminator or the
\* end of the input, after a blank line's spaces and tabs, and the
\* paragraph ends.  There is no other case.
ValueReturned == pc \in {"value", "line"} /\ pc' \notin {"value", "line"}

\* position c follows a line terminator and a run of spaces and tabs
AfterBlanks(c) ==
    \E b \in 2..c :
        /\ text[b - 1] \in Terminators
        /\ \A i \in b..(c - 1) : text[i] \in HSpace

NextFieldThere ==
    /\ CharAt(cur)' \in AlphaNumeric
    /\ CharAt(cur - 1)' \in Terminators
    /\ pc' = "fieldname"
    /\ begin' = cur'
    /\ Len(paragraphs') = Len(paragraphs)

ParagraphEndsThere ==
    /\ CharAt(cur)' \in Terminators \cup {"end-of-input"}
    /\ AfterBlanks(cur)' \/ cur' = Len(text) + 1
    /\ pc' = "loop"

C16_Step == ValueReturned => (NextFieldThere \/ ParagraphEndsThere)

C16_ValueReaderReturns == [][C16_Step]_vars

\* the same, for the texts that hold no character with code 0
C16_NoNULStep ==
    (\A j \in 1..Len(text) : text[j] # NUL) => C16_Step

C16_ReturnsWithoutNUL == [][C16_NoNULStep]_vars

\* C17: in every state of a parse the cursor is between the start and the
\* end of the text, and so is the start of the slice being read; next at
\* the end leaves the cursor where it is and yields 0, before the end it
\* moves one character; peek reads the character at the cursor and does
\* not move it; no step moves the cursor backwards or past the end.
C17_InBounds ==
    /\ cur \in 1..(Len(text) + 1)
    /\ pc \in {"fieldname", "colon", "value", "line"} => begin \in 1..cur
    /\ IF cur = Len(text) + 1
       THEN /\ next_cur(text, cur) = cur
            /\ next_ch(text, cur) = NUL
            /\ peek(text, cur) = NUL
       ELSE /\ next_cur(text, cur) = cur + 1
            /\ peek(text, cur) = text[cur]

C17_Step ==
    /\ InScanner => (text' = text /\ cur' \in cur..(Len(text) + 1))
    /\ (~InScanner /\ InScanner') => cur' = 1
    /\ (InScanner /\ cur = Len(text) + 1) => cur' = cur

C17_CursorInBounds == [](C17_InBounds) /\ [][C17_Step]_vars

C17_Witness ==
    /\ pc = "line"
    /\ Len(text) >= 1
    /\ cur = Len(text) + 1
    /\ text[Len(text)] \in HSpace
    /\ begin < cur

\* C18: when get_paragraphs returns a Document the cursor is at the end of
\* the text: no suffix of the text is left unscanned, whatever characters
\* the text holds, the character with code 0 included.
C18_WholeTextScanned == pc = "parsed" => cur = Len(text) + 1

\* the same, for the texts that hold no character with code 0
C18_ScannedWithoutNUL ==
    (pc = "parsed" /\ \A j \in 1..Len(text) : text[j] # NUL) =>
        cur = Len(text) + 1

\* C19: no stored field value ends with '\n'; every '\n' inside a stored
\* value is followed, before the next '\n' or the end of the value, by at
\* least one character other than space and tab; no stored value starts
\* with a space or a tab.
JoinedLineHasText(v, j) ==
    \E k \in (j + 1)..Len(v) :
        /\ v[k] \notin HSpace \cup {"\n"}
        /\ \A m \in (j + 1)..(k - 1) : v[m] # "\n"

ValueShape(v) ==
    /\ v # <<>> => (v[Len(v)] # "\n" /\ v[1] \notin HSpace)
    /\ \A j \in 1..Len(v) : v[j] = "\n" => JoinedLineHasText(v, j)

C19_StoredValueShape ==
    \A i \in 1..Len(paragraphs) : \A n \in DOMAIN paragraphs[i] :
        ValueShape(paragraphs[i][n])

C19_Witness ==
    /\ pc = "done"
    /\ result.kind = "value"
    /\ \E i \in 1..Len(paragraphs) : \E n \in DOMAIN paragraphs[i] :
           LET v == paragraphs[i][n]
           IN  /\ Len(v) >= 3
               /\ v[1] = "\n"
               /\ v[2] \in HSpace
    /\ Len(text) >= 1
    /\ text[Len(text)] \in HSpace

\* C20: the lookahead ch always equals the character at the cursor, or 0
\* when the cursor is at the end: after the initial peek and after every
\* step of next, skip_spaces, get_fieldname, get_fieldvalue, get_paragraph.
C20_LookaheadInSync ==
    pc \in {"loop", "fieldname", "colon", "value", "line", "parsed", "exited"} =>
        ch = IF cur = Len(text) + 1 THEN NUL ELSE text[cur]

C20_Witness ==
    /\ pc = "line"
    /\ begin < cur
    /\ cur <= Len(text)
    /\ ch = "#"
    /\ text[cur] = "#"
    /\ Len(fieldvalue) >= 1

====
